---- MODULE Spec2Model ----
(***************************************************************************)
(* A model of glimpse/util/zmq_cluster.py: the endpoint descriptor         *)
(* (Connect), the ventilator, the worker, the basic and the strict sink    *)
(* and the command plane, with the callbacks of                            *)
(* glimpse/backends/cython_backend.py as the per-task callback.            *)
(*                                                                         *)
(* The specifications, all over one set of variables:                      *)
(*   ConnectSpec   Connect.MakeSocket, step by step;                       *)
(*   ForwarderSpec LaunchForwarderDevice materializing its two sockets;    *)
(*   VentSpec      BasicVentilator.Setup/Send against a clock, with        *)
(*                 workers connecting at arbitrary instants;               *)
(*   Spec          one of the two deployments of the pipeline, each with   *)
(*                 the command plane: the ventilator and its workers, or   *)
(*                 the sink, fed by workers running elsewhere, with its    *)
(*                 poll timer;                                             *)
(*   WorkerSpec    the ventilator and workers that have a receiver         *)
(*                 timeout and are run again after it;                     *)
(*   SinkSpec      a basic sink without count and timeout and the          *)
(*                 publisher of KILL-SINK, with weak fairness;             *)
(*   LifeSpec      Send, Receive and Shutdown called in any order;         *)
(*   HealthySpec   the pipeline without kill commands and timeouts,        *)
(*                 with the weak fairness of independently running         *)
(*                 processes.                                              *)
(***************************************************************************)
EXTENDS Integers, Sequences, FiniteSets, Bags, TLC

VARIABLES
  \* --- Connect.MakeSocket ---
  desc,          \* the descriptor's attributes (options, bind, delays)
  mpc,           \* position inside MakeSocket
  margs,         \* the arguments of the MakeSocket call in progress
  msock,         \* the socket being materialized
  mtodo,         \* option items still to be applied with setsockopt
  mevents,       \* the sequence of transport-level events of the call
  \* --- clock ---
  now,           \* time.time(), in whole time units
  \* --- BasicVentilator ---
  v_ready,       \* self._ready
  v_sender,      \* whether attribute self._sender exists
  v_connect_delay, \* self._connect_delay (Optional)
  vpc,           \* position inside Send
  v_wake,        \* the instant time.sleep(time_delta) returns
  vreqs,         \* the requests Send has not pushed yet
  num_requests,  \* Send's counter
  pushes,        \* the instants at which send_pyobj(request) was called
  sent,          \* every request handed to send_pyobj, in order
  dropped,       \* requests pushed while no peer was connected
  v_setup_at,    \* the instant Setup ran (Optional)
  v_send_at,     \* the instant Send was called (Optional)
  \* --- Worker ---
  wpc,           \* position of each worker inside Run
  wsocks,        \* the sockets the last poll reported ready
  inbox,         \* requests queued at each worker's PULL socket
  wcmdq,         \* commands queued at each worker's SUB socket
  wconn_at,      \* the instant each worker's sockets connected (Optional)
  wraised,       \* per worker: callback exceptions taken by the handler
  whandled,      \* whether this poll round's request has been answered
  receiver_timeout, \* the workers' receiver_timeout attribute (Optional)
  welapsed,      \* per worker: time spent in the current poll
  w_setups,      \* per worker: how many times Setup ran
  w_error,       \* per worker: the exception that left Run (Optional)
  \* --- BasicSink / Sink ---
  strict,        \* TRUE for Sink, FALSE for BasicSink
  s_cmd_opts,    \* options of the sink's command descriptor (Optional)
  s_ready,       \* self._ready
  s_setups,      \* how many times Setup ran
  s_subscribed,  \* whether the command socket has a match-all filter
  rpc,           \* position inside Receive
  idx,           \* Receive's counter
  num_results,   \* Receive's argument (Optional)
  receive_timeout, \* the sink's receive_timeout attribute (Optional)
  timeout,       \* Receive's poll timeout (Optional)
  ssocks,        \* the sockets the last poll reported ready
  resultQ,       \* envelopes queued at the sink's PULL socket
  scmdq,         \* commands queued at the sink's SUB socket
  taken,         \* envelopes this Receive call took from the result socket
  out,           \* what this Receive call yielded to its consumer
  killed,        \* whether this Receive call read CMD_KILL
  shandled,      \* whether this poll round's envelope has been yielded
  error,         \* the exception the last Receive call raised (Optional)
  calls,         \* number of Receive calls made
  elapsed,       \* time spent in the current poll
  since_env,     \* time waited since the last envelope (or the wait's start)
  n_taken,       \* envelopes taken from the result socket, all calls
  n_sent,        \* envelopes pushed by the workers
  n_timeouts,    \* ReceiverTimeoutException raised by the sink so far
  published,     \* number of command messages published
  launched,      \* the processes the orchestrator runs in this deployment
  \* --- Shutdown ---
  v_shutdowns,   \* ventilator: Shutdown calls that returned
  v_shut_error,  \* ventilator: what the last Shutdown call raised (Optional)
  s_poller,      \* sink: whether the attributes Setup assigns exist
  s_shutdowns,   \* sink: Shutdown calls that returned
  s_shut_error   \* sink: what the last Shutdown call raised (Optional)

connVars == <<desc, mpc, margs, msock, mtodo, mevents>>
ventVars == <<v_ready, v_sender, v_connect_delay, vpc, v_wake, vreqs,
              num_requests, pushes, sent, dropped, v_setup_at, v_send_at>>
workVars == <<wpc, wsocks, inbox, wcmdq, wconn_at, wraised, whandled,
              receiver_timeout, welapsed, w_setups, w_error>>
sinkVars == <<strict, s_cmd_opts, receive_timeout, s_ready, s_setups, s_subscribed, rpc, idx,
              num_results, timeout, ssocks, resultQ, scmdq, taken, out,
              killed, shandled, error, calls, elapsed, since_env, n_taken,
              n_sent, n_timeouts>>
lifeVars == <<v_shutdowns, v_shut_error, s_poller, s_shutdowns, s_shut_error>>
pipeVars == <<now, ventVars, workVars, sinkVars, published, launched,
              lifeVars>>
vars == <<connVars, pipeVars>>

(***************************************************************************)
(* Python values.  An attribute that may be None is a set with at most     *)
(* one element: None is the empty set, Some(x) is {x}.                     *)
(***************************************************************************)
None == {}
Some(x) == {x}
The(s) == CHOOSE x \in s : TRUE

\* A dict is a function; dict.items() lists its pairs once each.
RECURSIVE Items(_)
Items(d) ==
  IF DOMAIN d = {} THEN <<>>
  ELSE LET k == CHOOSE x \in DOMAIN d : TRUE
           rest == [x \in DOMAIN d \ {k} |-> d[x]]
       IN  <<<<k, d[k]>>>> \o Items(rest)

\* dict(list of pairs): a later pair replaces an earlier one with the same key.
RECURSIVE DictOf(_)
DictOf(items) ==
  IF items = <<>> THEN <<>>
  ELSE LET n == Len(items)
           head == DictOf(SubSeq(items, 1, n - 1))
           k == items[n][1]
       IN  [x \in DOMAIN head \cup {k} |-> IF x = k THEN items[n][2] ELSE head[x]]

(***************************************************************************)
(* Connect: the endpoint descriptor and MakeSocket.                        *)
(***************************************************************************)
OptKeys == {"SUBSCRIBE", "HWM"}
OptVals == {"", "foo"}

\* Every option dictionary over the keys and values above.
OptionMaps == UNION {[K -> OptVals] : K \in SUBSET OptKeys}

\* An options attribute or argument: None or a dictionary.
OptionChoices == {None} \cup {Some(d) : d \in OptionMaps}

DelayChoices == {None, Some(1)}

\* The descriptors the orchestrator may construct (url and type are fixed by
\* the caller of MakeSocket in every use of this file, so they are left out).
Descriptors ==
  [options : OptionChoices, bind : BOOLEAN,
   pre_delay : DelayChoices, post_delay : DelayChoices]

\* The value of local variable `options` after the merge of the argument
\* `options` with the attribute self.options.
EffectiveOptions(selfOptions, options) ==
  LET o1 == IF options = None THEN <<>> ELSE The(options)
  IN  IF selfOptions # None
        THEN DictOf(Items(o1) \o Items(The(selfOptions)))
        ELSE o1

\* An argument takes precedence over the attribute unless it is None.
ArgOr(arg, attr) == IF arg = None THEN Some(attr) ELSE arg

NoSocket == [state |-> "none", opts |-> <<>>, bound |-> FALSE]

ConnectInit ==
  /\ desc \in Descriptors
  /\ mpc = "idle"
  /\ margs = [options |-> None, bind |-> None]
  /\ msock = NoSocket
  /\ mtodo = <<>>
  /\ mevents = <<>>

\* MakeSocket up to and including context.socket(type).
MakeSocketCall(options, bind) ==
  /\ mpc \in {"idle", "returned", "raised"}
  /\ margs' = [options |-> options, bind |-> bind]
  /\ mtodo' = Items(EffectiveOptions(desc.options, options))
  /\ msock' = [state |-> "created", opts |-> <<>>,
               bound |-> The(ArgOr(bind, desc.bind))]
  /\ mevents' = <<"socket">>
  /\ mpc' = "setopt"
  /\ UNCHANGED <<desc, pipeVars>>

\* One round of the loop over options.items(): socket.setsockopt(k, v).
MakeSocketSetOpt ==
  /\ mpc = "setopt"
  /\ mtodo # <<>>
  /\ LET k == Head(mtodo)[1]
         v == Head(mtodo)[2]
     IN  msock' = [msock EXCEPT !.opts =
                     [x \in DOMAIN msock.opts \cup {k} |->
                        IF x = k THEN v ELSE msock.opts[x]]]
  /\ mtodo' = Tail(mtodo)
  /\ mevents' = Append(mevents, "setsockopt")
  /\ UNCHANGED <<desc, mpc, margs, pipeVars>>

\* A MakeSocket that binds or connects first and sleeps the pre-delay after.
MakeSocketAttachThenSleep ==
  /\ mpc = "setopt"
  /\ mtodo = <<>>
  /\ LET attached == Append(mevents, IF msock.bound THEN "bind" ELSE "connect")
     IN  mevents' = IF desc.pre_delay # None
                      THEN Append(attached, "sleep_pre") ELSE attached
  /\ msock' = [msock EXCEPT !.state = IF msock.bound THEN "bound"
                                                     ELSE "connected"]
  /\ mpc' = "post"
  /\ UNCHANGED <<desc, margs, mtodo, pipeVars>>

\* The optional pre-delay sleep, then bind or connect.
MakeSocketAttach ==
  /\ mpc = "setopt"
  /\ mtodo = <<>>
  /\ LET slept == IF desc.pre_delay # None
                    THEN Append(mevents, "sleep_pre") ELSE mevents
     IN  IF msock.bound
           THEN /\ msock' = [msock EXCEPT !.state = "bound"]
                /\ mevents' = Append(slept, "bind")
           ELSE /\ msock' = [msock EXCEPT !.state = "connected"]
                /\ mevents' = Append(slept, "connect")
  /\ mpc' = "post"
  /\ UNCHANGED <<desc, margs, mtodo, pipeVars>>

\* setsockopt, bind or connect raises zmq.ZMQError: the exception leaves
\* MakeSocket, which has no handler and no finally clause; the local variable
\* socket is the only thing the function did with the socket.
MakeSocketRaise ==
  /\ mpc = "setopt"
  /\ LET slept == IF mtodo = <<>> /\ desc.pre_delay # None
                    THEN Append(mevents, "sleep_pre") ELSE mevents
     IN  mevents' = Append(slept, "raise")
  /\ mpc' = "raised"
  /\ UNCHANGED <<desc, margs, msock, mtodo, pipeVars>>

\* The optional post-delay sleep, then return socket.
MakeSocketReturn ==
  /\ mpc = "post"
  /\ mevents' = IF desc.post_delay # None
                  THEN Append(mevents, "sleep_post") ELSE mevents
  /\ mpc' = "returned"
  /\ UNCHANGED <<desc, margs, msock, mtodo, pipeVars>>

ConnectNext ==
  \/ \E o \in OptionChoices, b \in {None, Some(TRUE), Some(FALSE)} :
       MakeSocketCall(o, b)
  \/ MakeSocketSetOpt
  \/ MakeSocketAttach
  \/ MakeSocketRaise
  \/ MakeSocketReturn

(***************************************************************************)
(* Bounds of the model.                                                    *)
(***************************************************************************)
\* Requests handed to the ventilator in one behaviour.
MaxTasks == 2
\* Command messages published in one behaviour.
MaxPublish == 1
\* Receive calls made on the sink in one behaviour.
MaxCalls == 2
\* The last instant of the clock.
MaxTime == 4
\* The ventilator's worker_connect_delay argument, in time units.
ConnectDelay == 2
\* The timeout argument given to Receive, in time units.
TimeoutMs == 2

Workers == {"w1", "w2"}

\* Requests: 1 is answered, 3 makes the user callback raise E("bad"), 4 is
\* handed to the backend's DotProduct.
TaskVals == {1, 3, 4}

RECURSIVE SeqsUpTo(_, _)
SeqsUpTo(S, n) ==
  IF n = 0 THEN {<<>>}
  ELSE LET shorter == SeqsUpTo(S, n - 1)
       IN  shorter \cup {Append(q, x) : q \in shorter, x \in S}

(***************************************************************************)
(* The clock.                                                              *)
(***************************************************************************)
Tick ==
  /\ now < MaxTime
  /\ now' = now + 1
  /\ UNCHANGED <<connVars, lifeVars, ventVars, workVars, sinkVars, published, launched>>

(***************************************************************************)
(* BasicVentilator.                                                        *)
(***************************************************************************)
VentInit ==
  /\ v_ready = FALSE
  /\ v_sender = FALSE
  /\ v_connect_delay = None
  /\ vpc = "idle"
  /\ v_wake = 0
  /\ vreqs = <<>>
  /\ num_requests = 0
  /\ pushes = <<>>
  /\ sent = <<>>
  /\ dropped = 0
  /\ v_setup_at = None
  /\ v_send_at = None

\* self._connect_delay as Setup computes it at instant t.
ReadyInstant(t) == t + ConnectDelay

\* Send's time_delta at instant t.
TimeDelta(t, connect_delay) == t - connect_delay

\* Setup, called by the orchestrator.
VentSetup ==
  /\ "ventilator" \in launched
  /\ vpc = "idle"
  /\ ~v_ready
  /\ v_sender' = TRUE
  /\ v_connect_delay' = Some(ReadyInstant(now))
  /\ v_ready' = TRUE
  /\ v_setup_at' = Some(now)
  /\ UNCHANGED <<vpc, v_wake, vreqs, num_requests, pushes, sent, dropped,
                 v_send_at>>
  /\ UNCHANGED <<connVars, lifeVars, now, workVars, sinkVars, published, launched>>

\* Send's for loop: another round, or return num_requests.
LoopOver(requests) == IF requests = <<>> THEN "returned" ELSE "sending"

\* Send, up to the loop over the requests: the lazy Setup and the sleep.
VentSend(requests) ==
  /\ "ventilator" \in launched
  /\ vpc = "idle"
  /\ LET cd == IF v_ready THEN The(v_connect_delay) ELSE ReadyInstant(now)
         time_delta == TimeDelta(now, cd)
     IN  /\ v_connect_delay' = Some(cd)
         /\ IF time_delta > 0
              THEN /\ vpc' = "sleeping"
                   /\ v_wake' = now + time_delta
              ELSE /\ vpc' = LoopOver(requests)
                   /\ v_wake' = v_wake
  /\ v_setup_at' = IF v_ready THEN v_setup_at ELSE Some(now)
  /\ v_send_at' = IF v_send_at = None THEN Some(now) ELSE v_send_at
  /\ v_sender' = TRUE
  /\ v_ready' = TRUE
  /\ vreqs' = requests
  /\ num_requests' = 0
  /\ UNCHANGED <<pushes, sent, dropped>>
  /\ UNCHANGED <<connVars, lifeVars, now, workVars, sinkVars, published, launched>>

\* time.sleep(time_delta) returns.
VentWake ==
  /\ vpc = "sleeping"
  /\ now >= v_wake
  /\ vpc' = LoopOver(vreqs)
  /\ UNCHANGED <<v_ready, v_sender, v_connect_delay, v_wake, vreqs,
                 num_requests, pushes, sent, dropped, v_setup_at, v_send_at>>
  /\ UNCHANGED <<connVars, lifeVars, now, workVars, sinkVars, published, launched>>

\* The workers whose PULL socket is connected to the ventilator.
Connected == {w \in Workers : wconn_at[w] # None}

\* One round of Send's loop: self._sender.send_pyobj(request); after the
\* last round Send returns num_requests.  The PUSH
\* socket hands the request to one connected peer; with no peer connected
\* the request is dropped.
VentPush ==
  /\ vpc = "sending"
  /\ vreqs # <<>>
  /\ pushes' = Append(pushes, now)
  /\ sent' = Append(sent, Head(vreqs))
  /\ vreqs' = Tail(vreqs)
  /\ num_requests' = num_requests + 1
  /\ IF Connected = {}
       THEN /\ dropped' = dropped + 1
            /\ inbox' = inbox
       ELSE /\ dropped' = dropped
            /\ \E w \in Connected :
                 inbox' = [inbox EXCEPT ![w] = Append(@, Head(vreqs))]
  /\ vpc' = LoopOver(Tail(vreqs))
  /\ UNCHANGED <<v_ready, v_sender, v_connect_delay, v_wake,
                 v_setup_at, v_send_at>>
  /\ UNCHANGED <<wpc, wsocks, wcmdq, wconn_at, wraised, whandled,
                 receiver_timeout, welapsed, w_setups, w_error>>
  /\ UNCHANGED <<connVars, lifeVars, now, sinkVars, published, launched>>

(***************************************************************************)
(* ClusterResult, the callback and its exceptions.                         *)
(***************************************************************************)
STATUS_SUCCESS == "OK"
STATUS_FAIL == "FAIL"

\* ClusterResult(): every attribute None.
NewResult == [status |-> None, payload |-> None, exception |-> None]

\* The base class named in each exception class statement.
ExcBase ==
  [cls \in {"E", "NotImplemented", "Exception"} |->
     IF cls = "Exception" THEN "BaseException" ELSE "Exception"]

RECURSIVE IsSubclass(_, _)
IsSubclass(cls, of) ==
  \/ cls = of
  \/ /\ cls \in DOMAIN ExcBase
     /\ IsSubclass(ExcBase[cls], of)

\* The backend's DotProduct: raise NotImplemented().
DotProduct == [raises |-> TRUE, value |-> None,
               exc |-> Some([cls |-> "NotImplemented", msg |-> ""])]

\* The callback the workers are constructed with:
\* lambda x: raise E("bad") if x == 3, the backend's DotProduct for x == 4,
\* and x * 2 otherwise.
Callback(request) ==
  CASE request = 3 -> [raises |-> TRUE, value |-> None,
                       exc |-> Some([cls |-> "E", msg |-> "bad"])]
    [] request = 4 -> DotProduct
    [] OTHER -> [raises |-> FALSE, value |-> Some(request * 2), exc |-> None]

\* A narrower handler: except E, e.
CaughtOnlyE(exc) == exc.cls = "E"

\* except Exception, e: the handler takes instances of Exception.
Caught(exc) == IsSubclass(exc.cls, "Exception")

\* A try statement that marks every envelope a success.
EnvelopeAlwaysSuccess(request) ==
  Some([NewResult EXCEPT !.payload = Callback(request).value,
                         !.status = Some(STATUS_SUCCESS)])

\* A try statement whose handler records the status and drops the exception.
EnvelopeStatusOnly(request) ==
  LET r == Callback(request)
  IN  Some([NewResult EXCEPT !.payload = r.value,
                             !.status = Some(IF r.raises THEN STATUS_FAIL
                                                         ELSE STATUS_SUCCESS)])

\* The envelope built by the try statement of Run; None when the exception
\* is not taken by the handler and leaves Run.
Envelope(request) ==
  LET r == Callback(request)
  IN  IF ~r.raises
        THEN Some([NewResult EXCEPT !.payload = r.value,
                                    !.status = Some(STATUS_SUCCESS)])
        ELSE IF Caught(The(r.exc))
               THEN Some([NewResult EXCEPT !.exception = r.exc,
                                           !.status = Some(STATUS_FAIL)])
               ELSE None

(***************************************************************************)
(* Worker.                                                                 *)
(***************************************************************************)
\* A worker that takes the sink's literal for its own.
SinkLiteral == "CLUSTER_SINK_KILL"

WORKER_CMD_KILL == "CLUSTER_WORKER_KILL"
SINK_CMD_KILL == "CLUSTER_SINK_KILL"

SubscribeAll == [k \in {"SUBSCRIBE"} |-> ""]

\* A SUB socket takes the pickled commands iff it has the empty filter.
MatchAll(opts) == "SUBSCRIBE" \in DOMAIN opts /\ opts["SUBSCRIBE"] = ""

\* The workers' command descriptor carries no options of its own; Setup
\* passes options = {zmq.SUBSCRIBE : ""}.
WorkerSubscribed == MatchAll(EffectiveOptions(None, Some(SubscribeAll)))

WorkerInit ==
  /\ wpc = [w \in Workers |-> "init"]
  /\ wsocks = [w \in Workers |-> {}]
  /\ inbox = [w \in Workers |-> <<>>]
  /\ wcmdq = [w \in Workers |-> <<>>]
  /\ wconn_at = [w \in Workers |-> None]
  /\ wraised = [w \in Workers |-> 0]
  /\ whandled = [w \in Workers |-> FALSE]
  /\ receiver_timeout \in {None, Some(0), Some(TimeoutMs)}
  /\ welapsed = [w \in Workers |-> 0]
  /\ w_setups = [w \in Workers |-> 0]
  /\ w_error = [w \in Workers |-> None]

\* Run is called: receiver is None, so Setup creates and connects the sockets.
WorkerRun(w) ==
  /\ "workers" \in launched
  /\ wpc[w] = "init"
  /\ wconn_at' = [wconn_at EXCEPT ![w] = Some(now)]
  /\ wpc' = [wpc EXCEPT ![w] = "poll"]
  /\ w_setups' = [w_setups EXCEPT ![w] = @ + 1]
  /\ UNCHANGED <<wsocks, inbox, wcmdq, wraised, whandled, receiver_timeout,
                 welapsed, w_error>>
  /\ UNCHANGED <<connVars, lifeVars, now, ventVars, sinkVars, published, launched>>

\* The sockets a poll finds ready.
WorkerReady(w) ==
  (IF inbox[w] # <<>> THEN {"data"} ELSE {}) \cup
  (IF wcmdq[w] # <<>> THEN {"command"} ELSE {})

\* A loop body that looks at the command socket first.
WorkerCommandFirst(socks) == IF "command" \in socks THEN "command" ELSE "data"

\* The order of the two if statements of Run's loop body: the receiver is
\* looked at first.
WorkerFirst(socks) == IF "data" \in socks THEN "data" ELSE "command"

\* A loop that honours the kill only once its receiver has no request left.
BreakWhenDrained(kill, rest) == kill /\ rest = <<>>

\* if cmd == Worker.CMD_KILL: break.  The break does not look at what is
\* still queued at the receiver.
BreakOnKill(kill, rest) == kill

\* One round of Run's loop: socks = dict(self.poller.poll(...)) returns with
\* a socket ready; if the receiver is in socks: recv_pyobj, the callback,
\* send_pyobj(result); if cmd_subscriber is in socks: recv_pyobj, break on
\* CMD_KILL.  An exception the handler does not take leaves Run.
WorkerPoll(w) ==
  /\ wpc[w] = "poll"
  /\ WorkerReady(w) # {}
  /\ LET socks == WorkerReady(w)
         kill == "command" \in socks /\ Head(wcmdq[w]) = WORKER_CMD_KILL
         data == "data" \in socks /\ (WorkerFirst(socks) = "data" \/ ~kill)
         request == Head(inbox[w])
         env == Envelope(request)
         escaped == data /\ env = None
     IN  /\ wsocks' = [wsocks EXCEPT ![w] = socks]
         /\ inbox' = [inbox EXCEPT ![w] = IF data THEN Tail(@) ELSE @]
         /\ whandled' = [whandled EXCEPT ![w] = data /\ ~escaped]
         /\ IF data /\ ~escaped
              THEN /\ resultQ' = Append(resultQ, The(env))
                   /\ n_sent' = n_sent + 1
                   /\ wraised' = [wraised EXCEPT ![w] =
                                    IF Callback(request).raises THEN @ + 1 ELSE @]
              ELSE UNCHANGED <<resultQ, n_sent, wraised>>
         /\ wcmdq' = [wcmdq EXCEPT ![w] =
                        IF "command" \in socks /\ ~escaped THEN Tail(@) ELSE @]
         /\ wpc' = [wpc EXCEPT ![w] =
                      IF escaped THEN "raised"
                      ELSE IF BreakOnKill(kill, inbox'[w]) THEN "exited"
                      ELSE "poll"]
  /\ welapsed' = [welapsed EXCEPT ![w] = 0]
  /\ UNCHANGED <<wconn_at, receiver_timeout, w_setups, w_error>>
  /\ UNCHANGED <<strict, s_cmd_opts, receive_timeout, s_ready, s_setups, s_subscribed, rpc,
                 idx, num_results, timeout, ssocks, scmdq, taken, out,
                 killed, shandled, error, calls, elapsed, since_env, n_taken,
                 n_timeouts>>
  /\ UNCHANGED <<connVars, lifeVars, now, ventVars, published, launched>>

\* One time unit passes while a worker's poll blocks with nothing ready.
\* poll(None) has no window; poll(0) has an empty one.
WorkerTick(w) ==
  /\ wpc[w] = "poll"
  /\ WorkerReady(w) = {}
  /\ receiver_timeout # None
  /\ welapsed[w] < The(receiver_timeout)
  /\ welapsed' = [welapsed EXCEPT ![w] = @ + 1]
  /\ UNCHANGED <<wpc, wsocks, inbox, wcmdq, wconn_at, wraised, whandled,
                 receiver_timeout, w_setups, w_error>>
  /\ UNCHANGED <<connVars, lifeVars, now, ventVars, sinkVars, published,
                 launched>>

\* poll(self.receiver_timeout) returns no socket:
\* raise ReceiverTimeoutException, which leaves Run.
WorkerTimeout(w) ==
  /\ wpc[w] = "poll"
  /\ WorkerReady(w) = {}
  /\ receiver_timeout # None
  /\ welapsed[w] >= The(receiver_timeout)
  /\ wpc' = [wpc EXCEPT ![w] = "timeout"]
  /\ wsocks' = [wsocks EXCEPT ![w] = {}]
  /\ w_error' = [w_error EXCEPT ![w] =
                   Some([type |-> "ReceiverTimeoutException", msg |-> <<>>])]
  /\ UNCHANGED <<inbox, wcmdq, wconn_at, wraised, whandled, receiver_timeout,
                 welapsed, w_setups>>
  /\ UNCHANGED <<connVars, lifeVars, now, ventVars, sinkVars, published,
                 launched>>

\* Run is called again after ReceiverTimeoutException: self.receiver is not
\* None, so Setup is skipped and the loop polls the sockets it has.
WorkerRunAgain(w) ==
  /\ wpc[w] = "timeout"
  /\ wpc' = [wpc EXCEPT ![w] = "poll"]
  /\ welapsed' = [welapsed EXCEPT ![w] = 0]
  /\ w_error' = [w_error EXCEPT ![w] = None]
  /\ UNCHANGED <<wsocks, inbox, wcmdq, wconn_at, wraised, whandled,
                 receiver_timeout, w_setups>>
  /\ UNCHANGED <<connVars, lifeVars, now, ventVars, sinkVars, published,
                 launched>>

\* A worker of another host answers a request and its send_pyobj(result)
\* reaches the sink: what one round of Run's loop does to the result channel.
Deliver(request) ==
  /\ "workers" \notin launched
  /\ n_sent < MaxTasks
  /\ Envelope(request) # None
  /\ resultQ' = Append(resultQ, The(Envelope(request)))
  /\ n_sent' = n_sent + 1
  /\ UNCHANGED <<strict, s_cmd_opts, receive_timeout, s_ready, s_setups, s_subscribed, rpc,
                 idx, num_results, timeout, ssocks, scmdq, taken, out,
                 killed, shandled, error, calls, elapsed, since_env, n_taken,
                 n_timeouts>>
  /\ UNCHANGED <<connVars, lifeVars, now, ventVars, workVars, published, launched>>

(***************************************************************************)
(* BasicSink and Sink.                                                     *)
(***************************************************************************)
SinkInit ==
  /\ strict \in BOOLEAN
  /\ s_cmd_opts \in {None, Some(SubscribeAll)}
  /\ receive_timeout \in {None, Some(TimeoutMs)}
  /\ s_ready = FALSE
  /\ s_setups = 0
  /\ s_subscribed = FALSE
  /\ rpc = "idle"
  /\ idx = 0
  /\ num_results = None
  /\ timeout = None
  /\ ssocks = {}
  /\ resultQ = <<>>
  /\ scmdq = <<>>
  /\ taken = <<>>
  /\ out = <<>>
  /\ killed = FALSE
  /\ shandled = FALSE
  /\ error = None
  /\ calls = 0
  /\ elapsed = 0
  /\ since_env = 0
  /\ n_taken = 0
  /\ n_sent = 0
  /\ n_timeouts = 0

\* A loop head that lets one envelope too many through.
LoopHeadOffByOne(i, n) ==
  IF n # None /\ i > The(n) THEN "stopped" ELSE "poll"

\* The head of Receive's loop: break once idx >= num_results.
LoopHead(i, n) ==
  IF n # None /\ i >= The(n) THEN "stopped" ELSE "poll"

\* The sockets a poll finds ready.
SinkReady ==
  (IF resultQ # <<>> THEN {"data"} ELSE {}) \cup
  (IF scmdq # <<>> THEN {"command"} ELSE {})

\* The order of the two if statements of Receive's loop body.
SinkFirst(socks) == IF "data" \in socks THEN "data" ELSE "command"

\* Receive is called and its consumer asks for the first element: the lazy
\* Setup, idx = 0, the timeout default, the first pass of the loop head.
SinkReceive(n, t) ==
  /\ "sink" \in launched
  /\ rpc \in {"idle", "stopped", "timeout", "failed", "crashed"}
  /\ calls < MaxCalls
  /\ calls' = calls + 1
  /\ IF s_ready
       THEN UNCHANGED <<s_ready, s_setups, s_subscribed, s_poller>>
       ELSE /\ s_ready' = TRUE
            /\ s_setups' = s_setups + 1
            /\ s_subscribed' = MatchAll(EffectiveOptions(s_cmd_opts, None))
            /\ s_poller' = TRUE
  /\ idx' = 0
  /\ num_results' = n
  /\ timeout' = IF t = None THEN receive_timeout ELSE t
  /\ taken' = <<>>
  /\ out' = <<>>
  /\ killed' = FALSE
  /\ elapsed' = 0
  /\ since_env' = 0
  /\ IF LoopHead(0, n) = "poll" /\ ~s_poller'
       THEN /\ rpc' = "crashed"
            /\ error' = Some([type |-> "AttributeError",
                              msg |-> <<"_poller">>])
       ELSE /\ rpc' = LoopHead(0, n)
            /\ error' = None
  /\ UNCHANGED <<strict, s_cmd_opts, receive_timeout, ssocks, resultQ, scmdq, shandled,
                 n_taken, n_sent, n_timeouts>>
  /\ UNCHANGED <<v_shutdowns, v_shut_error, s_shutdowns, s_shut_error>>
  /\ UNCHANGED <<connVars, now, ventVars, workVars, published, launched>>

\* "%s" % exception: str() of the exception, "None" where there is none.
Str(exception) == IF exception = None THEN "None" ELSE The(exception).msg

\* A wrapper that passes every payload on, whatever the status.
UnwrapAll(result) == [raises |-> FALSE, value |-> result.payload, exc |-> None]

\* The body of Sink.Receive's loop over one envelope: raise WorkerException
\* unless the status is STATUS_SUCCESS, else yield the payload.
Unwrap(result) ==
  IF result.status # Some(STATUS_SUCCESS)
    THEN [raises |-> TRUE, value |-> None,
          exc |-> Some([type |-> "WorkerException",
                        msg |-> <<"Caught exception in worker node: ",
                                  Str(result.exception)>>])]
    ELSE [raises |-> FALSE, value |-> result.payload, exc |-> None]

\* self._poller.poll(timeout) returns with a socket ready, and, if the
\* result socket is in socks: recv_pyobj, yield result, idx += 1.  With the
\* strict Sink the yielded envelope goes through Unwrap, and a
\* WorkerException leaves the inner generator suspended at its yield.
SinkPoll ==
  /\ rpc = "poll"
  /\ SinkReady # {}
  /\ ssocks' = SinkReady
  /\ IF SinkFirst(SinkReady) = "data"
       THEN LET result == Head(resultQ)
                u == Unwrap(result)
            IN  /\ resultQ' = Tail(resultQ)
                /\ taken' = Append(taken, result)
                /\ n_taken' = n_taken + 1
                /\ shandled' = TRUE
                /\ IF strict /\ u.raises
                     THEN /\ rpc' = "failed"
                          /\ error' = u.exc
                          /\ UNCHANGED <<out, idx, since_env, elapsed>>
                     ELSE /\ out' = Append(out, IF strict THEN u.value
                                                ELSE Some(result))
                          /\ idx' = idx + 1
                          /\ since_env' = 0
                          /\ elapsed' = 0
                          /\ error' = error
                          /\ rpc' = IF "command" \in SinkReady THEN "command"
                                    ELSE LoopHead(idx + 1, num_results)
       ELSE /\ rpc' = "command"
            /\ shandled' = FALSE
            /\ UNCHANGED <<resultQ, taken, n_taken, out, idx, since_env,
                           elapsed, error>>
  /\ UNCHANGED <<strict, s_cmd_opts, receive_timeout, s_ready, s_setups, s_subscribed,
                 num_results, timeout, scmdq, killed, calls, n_sent,
                 n_timeouts>>
  /\ UNCHANGED <<connVars, lifeVars, now, ventVars, workVars, published, launched>>

\* One time unit passes while poll blocks with nothing ready.
SinkTick ==
  /\ rpc = "poll"
  /\ SinkReady = {}
  /\ timeout # None
  /\ elapsed < The(timeout)
  /\ elapsed' = elapsed + 1
  /\ since_env' = since_env + 1
  /\ UNCHANGED <<strict, s_cmd_opts, receive_timeout, s_ready, s_setups, s_subscribed, rpc,
                 idx, num_results, timeout, ssocks, resultQ, scmdq, taken,
                 out, killed, shandled, error, calls, n_taken, n_sent,
                 n_timeouts>>
  /\ UNCHANGED <<connVars, lifeVars, now, ventVars, workVars, published, launched>>

\* A timeout that also takes the sink out of its ready phase.
RaisedAndUnready == FALSE

\* self._ready after ReceiverTimeoutException is raised: Receive leaves it.
ReadyAfterTimeout == s_ready

\* poll returns no socket: raise ReceiverTimeoutException.
SinkTimeout ==
  /\ rpc = "poll"
  /\ SinkReady = {}
  /\ timeout # None
  /\ elapsed >= The(timeout)
  /\ rpc' = "timeout"
  /\ error' = Some([type |-> "ReceiverTimeoutException", msg |-> <<>>])
  /\ n_timeouts' = n_timeouts + 1
  /\ s_ready' = ReadyAfterTimeout
  /\ UNCHANGED <<strict, s_cmd_opts, receive_timeout, s_setups, s_subscribed, idx,
                 num_results, timeout, ssocks, resultQ, scmdq, taken, out,
                 killed, shandled, calls, elapsed, since_env, n_taken,
                 n_sent>>
  /\ UNCHANGED <<connVars, lifeVars, now, ventVars, workVars, published, launched>>

\* if self._command_socket in socks: recv_pyobj, break on CMD_KILL.
SinkCommand ==
  /\ rpc = "command"
  /\ scmdq # <<>>
  /\ scmdq' = Tail(scmdq)
  /\ IF Head(scmdq) = SINK_CMD_KILL
       THEN /\ killed' = TRUE
            /\ rpc' = "stopped"
       ELSE /\ killed' = killed
            /\ rpc' = LoopHead(idx, num_results)
  /\ elapsed' = 0
  /\ UNCHANGED <<strict, s_cmd_opts, receive_timeout, s_ready, s_setups, s_subscribed, idx,
                 num_results, timeout, ssocks, resultQ, taken, out, shandled,
                 error, calls, since_env, n_taken, n_sent, n_timeouts>>
  /\ UNCHANGED <<connVars, lifeVars, now, ventVars, workVars, published, launched>>

(***************************************************************************)
(* The command plane.                                                      *)
(***************************************************************************)
\* commands.send_pyobj(cmd) on a PUB socket: every SUB socket that is
\* connected and whose filter matches gets a copy.
Broadcast(cmd) ==
  /\ published < MaxPublish
  /\ published' = published + 1
  /\ wcmdq' = [w \in Workers |->
                 IF wpc[w] \notin {"init", "exited", "raised"} /\ WorkerSubscribed
                   THEN Append(wcmdq[w], cmd) ELSE wcmdq[w]]
  /\ scmdq' = IF s_ready /\ s_subscribed THEN Append(scmdq, cmd) ELSE scmdq
  /\ UNCHANGED <<wpc, wsocks, inbox, wconn_at, wraised, whandled,
                 receiver_timeout, welapsed, w_setups, w_error>>
  /\ UNCHANGED <<strict, s_cmd_opts, receive_timeout, s_ready, s_setups, s_subscribed, rpc,
                 idx, num_results, timeout, ssocks, resultQ, taken, out,
                 killed, shandled, error, calls, elapsed, since_env, n_taken,
                 n_sent, n_timeouts>>
  /\ UNCHANGED <<connVars, lifeVars, now, ventVars, launched>>

\* BasicSink.SendKillCommand.
SinkSendKillCommand == Broadcast(SINK_CMD_KILL)

\* Worker.SendKillCommand.
WorkerSendKillCommand == Broadcast(WORKER_CMD_KILL)

(***************************************************************************)
(* The specifications.                                                     *)
(***************************************************************************)
\* The descriptor is not materialized step by step in the pipeline.
ConnectIdle ==
  /\ desc = [options |-> None, bind |-> FALSE,
             pre_delay |-> None, post_delay |-> None]
  /\ mpc = "idle"
  /\ margs = [options |-> None, bind |-> None]
  /\ msock = NoSocket
  /\ mtodo = <<>>
  /\ mevents = <<>>

PipelineIdle ==
  /\ now = 0
  /\ VentInit
  /\ WorkerInit
  /\ SinkInit
  /\ published = 0
  /\ v_shutdowns = 0
  /\ v_shut_error = None
  /\ s_poller = FALSE
  /\ s_shutdowns = 0
  /\ s_shut_error = None

RequestLists == SeqsUpTo(TaskVals, MaxTasks)

CountChoices == {None} \cup {Some(n) : n \in 0..MaxTasks}

\* Each process against its environment: the ventilator and the workers
\* with the command plane, their results queueing for a sink that is not
\* started; or the sink with the command plane, fed by remote workers.
Init ==
  /\ ConnectIdle
  /\ PipelineIdle
  /\ receiver_timeout = None
  /\ \/ /\ launched = {"ventilator", "workers"}
        /\ strict = FALSE
        /\ s_cmd_opts = Some(SubscribeAll)
        /\ receive_timeout = None
     \/ launched = {"sink"}

Next ==
  \/ \E requests \in RequestLists : VentSend(requests)
  \/ VentPush
  \/ \E w \in Workers : WorkerRun(w)
  \/ \E w \in Workers : WorkerPoll(w)
  \/ \E request \in TaskVals : Deliver(request)
  \/ \E n \in CountChoices : SinkReceive(n, None)
  \/ SinkPoll
  \/ SinkTick
  \/ SinkTimeout
  \/ SinkCommand
  \/ SinkSendKillCommand
  \/ WorkerSendKillCommand

Spec == Init /\ [][Next]_vars

\* Connect.MakeSocket alone.
ConnectSpecInit ==
  /\ ConnectInit
  /\ PipelineIdle
  /\ receiver_timeout = None
  /\ strict = FALSE
  /\ s_cmd_opts = Some(SubscribeAll)
  /\ receive_timeout = None
  /\ launched = {}

ConnectSpec == ConnectSpecInit /\ [][ConnectNext]_vars

\* LaunchForwarderDevice: frontend_connect.MakeSocket(context, type = zmq.SUB,
\* bind = False, options = {zmq.SUBSCRIBE : ""}).
LaunchForwarderFrontend ==
  /\ mpc = "idle"
  /\ MakeSocketCall(Some(SubscribeAll), Some(FALSE))

\* LaunchForwarderDevice, once the frontend is made:
\* backend_connect.MakeSocket(context, type = zmq.PUB, bind = True), on the
\* second descriptor d.
LaunchForwarderBackend(d) ==
  /\ mpc = "returned"
  /\ margs.bind = Some(FALSE)
  /\ desc' = d
  /\ margs' = [options |-> None, bind |-> Some(TRUE)]
  /\ mtodo' = Items(EffectiveOptions(d.options, None))
  /\ msock' = [state |-> "created", opts |-> <<>>,
               bound |-> The(ArgOr(Some(TRUE), d.bind))]
  /\ mevents' = <<"socket">>
  /\ mpc' = "setopt"
  /\ UNCHANGED pipeVars

ForwarderNext ==
  \/ LaunchForwarderFrontend
  \/ \E d \in Descriptors : LaunchForwarderBackend(d)
  \/ MakeSocketSetOpt
  \/ MakeSocketAttach
  \/ MakeSocketRaise
  \/ MakeSocketReturn

\* The forwarder device materializing its two descriptors.
ForwarderSpec == ConnectSpecInit /\ [][ForwarderNext]_vars

\* The ventilator against the clock, with workers connecting when they will.
VentSpecInit ==
  /\ ConnectIdle
  /\ PipelineIdle
  /\ receiver_timeout = None
  /\ strict = FALSE
  /\ s_cmd_opts = Some(SubscribeAll)
  /\ receive_timeout = None
  /\ launched = {"ventilator", "workers"}

VentNext ==
  \/ Tick
  \/ VentSetup
  \/ \E requests \in RequestLists : VentSend(requests)
  \/ VentWake
  \/ VentPush
  \/ \E w \in Workers : WorkerRun(w)

VentSpec == VentSpecInit /\ [][VentNext]_vars

\* The healthy pipeline: every worker is connected before the ventilator
\* pushes, no command is published, the sink is a BasicSink without a
\* timeout, and the orchestrator calls Receive with the count Send returned.
HealthyInit ==
  /\ ConnectIdle
  /\ PipelineIdle
  /\ receiver_timeout = None
  /\ strict = FALSE
  /\ s_cmd_opts = Some(SubscribeAll)
  /\ receive_timeout = None
  /\ launched = {"ventilator", "workers", "sink"}

HealthySend(requests) ==
  /\ \A w \in Workers : wconn_at[w] # None
  /\ VentSend(requests)

HealthyReceive ==
  /\ vpc = "returned"
  /\ calls = 0
  /\ SinkReceive(Some(num_requests), None)

HealthyNext ==
  \/ \E requests \in RequestLists : HealthySend(requests)
  \/ VentPush
  \/ \E w \in Workers : WorkerRun(w)
  \/ \E w \in Workers : WorkerPoll(w)
  \/ HealthyReceive
  \/ SinkPoll

\* Every process runs on its own and is scheduled by the operating system:
\* a step that stays possible is eventually taken.
HealthySpec ==
  /\ HealthyInit
  /\ [][HealthyNext]_vars
  /\ WF_vars(\E requests \in RequestLists : HealthySend(requests))
  /\ WF_vars(VentPush)
  /\ \A w \in Workers : WF_vars(WorkerRun(w))
  /\ \A w \in Workers : WF_vars(WorkerPoll(w))
  /\ WF_vars(HealthyReceive)
  /\ WF_vars(SinkPoll)

\* The ventilator and its workers, the workers constructed with or without
\* a receiver timeout and run again by their owner after a timeout.
WorkerSpecInit ==
  /\ ConnectIdle
  /\ now = 0
  /\ VentInit
  /\ WorkerInit
  /\ SinkInit
  /\ published = 0
  /\ v_shutdowns = 0
  /\ v_shut_error = None
  /\ s_poller = FALSE
  /\ s_shutdowns = 0
  /\ s_shut_error = None
  /\ strict = FALSE
  /\ s_cmd_opts = Some(SubscribeAll)
  /\ receive_timeout = None
  /\ launched = {"ventilator", "workers"}

WorkerSpecNext ==
  \/ \E requests \in RequestLists : VentSend(requests)
  \/ VentPush
  \/ \E w \in Workers : WorkerRun(w)
  \/ \E w \in Workers : WorkerPoll(w)
  \/ \E w \in Workers : WorkerTick(w)
  \/ \E w \in Workers : WorkerTimeout(w)
  \/ \E w \in Workers : WorkerRunAgain(w)
  \/ WorkerSendKillCommand

WorkerSpec == WorkerSpecInit /\ [][WorkerSpecNext]_vars

\* Shutdown calls that return, per object, in one behaviour.
MaxShutdowns == 1

\* del self.<name> on an object without that attribute.
AttributeError(name) == Some([type |-> "AttributeError", msg |-> <<name>>])

\* BasicVentilator.Shutdown, called between Send calls: del self._sender,
\* then self._ready = False; the del raises when the attribute is not there.
VentShutdown ==
  /\ "ventilator" \in launched
  /\ vpc \in {"idle", "returned"}
  /\ IF v_sender
       THEN /\ v_shutdowns < MaxShutdowns
            /\ v_sender' = FALSE
            /\ v_ready' = FALSE
            /\ vpc' = "idle"
            /\ v_shutdowns' = v_shutdowns + 1
            /\ v_shut_error' = None
       ELSE /\ v_shut_error' = AttributeError("_sender")
            /\ UNCHANGED <<v_sender, v_ready, vpc, v_shutdowns>>
  /\ UNCHANGED <<v_connect_delay, v_wake, vreqs, num_requests, pushes, sent,
                 dropped, v_setup_at, v_send_at>>
  /\ UNCHANGED <<s_poller, s_shutdowns, s_shut_error>>
  /\ UNCHANGED <<connVars, now, workVars, sinkVars, published, launched>>

\* A sink Shutdown that also leaves the ready phase.
ReadyReset == FALSE

\* self._ready after BasicSink.Shutdown: the method does not assign it.
ReadyAfterShutdown == s_ready

\* BasicSink.Shutdown, called between Receive calls: del self._poller,
\* del self._receiver_socket, del self._command_socket; the first del raises
\* when Setup has not assigned the attributes or they are already deleted.
SinkShutdown ==
  /\ "sink" \in launched
  /\ rpc \in {"idle", "stopped", "timeout", "failed", "crashed"}
  /\ IF s_poller
       THEN /\ s_shutdowns < MaxShutdowns
            /\ s_poller' = FALSE
            /\ s_ready' = ReadyAfterShutdown
            /\ s_shutdowns' = s_shutdowns + 1
            /\ s_shut_error' = None
       ELSE /\ s_shut_error' = AttributeError("_poller")
            /\ UNCHANGED <<s_poller, s_ready, s_shutdowns>>
  /\ UNCHANGED <<strict, s_cmd_opts, receive_timeout, s_setups, s_subscribed,
                 rpc, idx, num_results, timeout, ssocks, resultQ, scmdq,
                 taken, out, killed, shandled, error, calls, elapsed,
                 since_env, n_taken, n_sent, n_timeouts>>
  /\ UNCHANGED <<v_shutdowns, v_shut_error>>
  /\ UNCHANGED <<connVars, now, ventVars, workVars, published, launched>>

\* A ventilator, or a sink fed by workers elsewhere, whose owner calls Send
\* or Receive and Shutdown in any order.
LifeSpecInit ==
  /\ ConnectIdle
  /\ PipelineIdle
  /\ receiver_timeout = None
  /\ strict = FALSE
  /\ s_cmd_opts = Some(SubscribeAll)
  /\ receive_timeout = None
  /\ launched \in {{"ventilator"}, {"sink"}}

LifeSpecNext ==
  \/ \E requests \in RequestLists : VentSend(requests)
  \/ VentPush
  \/ VentShutdown
  \/ \E n \in CountChoices : SinkReceive(n, None)
  \/ SinkPoll
  \/ \E request \in TaskVals : "sink" \in launched /\ Deliver(request)
  \/ SinkShutdown

LifeSpec == LifeSpecInit /\ [][LifeSpecNext]_vars

\* SendKillCommand, called once the sink's command socket is connected.
PublishKill ==
  /\ s_ready
  /\ SinkSendKillCommand

\* SendKillCommand called a second time while the first Receive call of the
\* sink has not been followed by another.
PublishKillAgain ==
  /\ calls = 1
  /\ published >= 1
  /\ published < MaxPublish + 1
  /\ published' = published + 1
  /\ scmdq' = IF s_ready /\ s_subscribed
                THEN Append(scmdq, SINK_CMD_KILL) ELSE scmdq
  /\ UNCHANGED <<strict, s_cmd_opts, receive_timeout, s_ready, s_setups,
                 s_subscribed, rpc, idx, num_results, timeout, ssocks,
                 resultQ, taken, out, killed, shandled, error, calls,
                 elapsed, since_env, n_taken, n_sent, n_timeouts>>
  /\ UNCHANGED <<connVars, lifeVars, now, ventVars, workVars, launched>>

\* A basic sink without count and timeout, its command descriptor with or
\* without options, envelopes arriving from workers elsewhere, and an
\* orchestrator that publishes KILL-SINK.
SinkSpecInit ==
  /\ ConnectIdle
  /\ PipelineIdle
  /\ receiver_timeout = None
  /\ strict = FALSE
  /\ receive_timeout = None
  /\ launched = {"sink"}

SinkSpecNext ==
  \/ SinkReceive(None, None)
  \/ SinkPoll
  \/ SinkCommand
  \/ \E request \in TaskVals : Deliver(request)
  \/ PublishKill
  \/ PublishKillAgain

\* The sink and the orchestrator are processes of their own; the remote
\* workers may or may not send.
SinkSpec ==
  /\ SinkSpecInit
  /\ [][SinkSpecNext]_vars
  /\ WF_vars(SinkReceive(None, None))
  /\ WF_vars(SinkPoll)
  /\ WF_vars(SinkCommand)
  /\ WF_vars(PublishKill)

(***************************************************************************)
(* The claims.                                                             *)
(***************************************************************************)
Last(q) == q[Len(q)]

SeqToBag(q) ==
  [x \in {q[i] : i \in DOMAIN q} |-> Cardinality({i \in DOMAIN q : q[i] = x})]

\* What the consumer reads off an envelope: the payload of a success, the
\* error of a failure.
Reading(e) ==
  IF e.status = Some(STATUS_SUCCESS)
    THEN [raises |-> FALSE, value |-> e.payload, exc |-> None]
    ELSE [raises |-> TRUE, value |-> None, exc |-> e.exception]

Readings == [i \in DOMAIN out |-> Reading(The(out[i]))]

Outcomes == [i \in DOMAIN sent |-> Callback(sent[i])]

C1_Done ==
  /\ vpc = "returned"
  /\ rpc = "stopped"
  /\ error = None
  /\ dropped = 0
  /\ Len(out) = Len(sent)
  /\ SeqToBag(Readings) = SeqToBag(Outcomes)

\* C1 (throughput equality): in the healthy pipeline the Receive call made
\* with the count Send returned eventually ends after yielding exactly one
\* envelope per request sent, the multiset of the envelopes read being the
\* multiset of the callback's outcomes on the requests sent; and at no
\* moment has the sink yielded an envelope that is not the outcome of a
\* request sent (nothing invented, nothing duplicated).
C1_ThroughputEquality ==
  /\ <>[]C1_Done
  /\ [](SeqToBag(Readings) \sqsubseteq SeqToBag(Outcomes))

\* Both workers answered a request, one of the callbacks raised, one
\* returned, and the Receive call has ended with every envelope.
C1_Witness ==
  /\ C1_Done
  /\ Len(sent) >= 2
  /\ \A w \in Workers : whandled[w]
  /\ \E i \in DOMAIN out : The(out[i]).status = Some(STATUS_FAIL)
  /\ \E i \in DOMAIN out : The(out[i]).status = Some(STATUS_SUCCESS)

\* C2 (callback totality): whenever a worker takes a request off its
\* receiver it pushes exactly one envelope for it; if the callback raises on
\* that request (the user's E or the backend's NotImplemented) the envelope
\* has status FAIL and carries the exception; the exception does not leave
\* Run, and the worker is back at its poll unless that same round read
\* CMD_KILL.
C2_CallbackTotality ==
  [][\A w \in Workers :
       (inbox[w] # <<>> /\ inbox'[w] = Tail(inbox[w])) =>
         LET r == Callback(Head(inbox[w]))
         IN  /\ Len(resultQ') = Len(resultQ) + 1
             /\ SubSeq(resultQ', 1, Len(resultQ)) = resultQ
             /\ r.raises =>
                  /\ Last(resultQ').status = Some(STATUS_FAIL)
                  /\ Last(resultQ').exception = r.exc
                  /\ Last(resultQ').payload = None
             /\ wpc'[w] # "raised"
             /\ wpc'[w] = "exited" =>
                  /\ "command" \in wsocks'[w]
                  /\ Head(wcmdq[w]) = WORKER_CMD_KILL
             /\ wpc'[w] \in {"poll", "exited"}]_vars

\* Worker w1, alone, answered a request on which the backend raised
\* NotImplemented and then a request on which the callback returned, and is
\* polling again.
C2_Witness ==
  /\ wpc["w2"] = "init"
  /\ wpc["w1"] = "poll"
  /\ wraised["w1"] = 1
  /\ Len(resultQ) = 2
  /\ resultQ[1].status = Some(STATUS_FAIL)
  /\ resultQ[1].exception = DotProduct.exc
  /\ resultQ[2].status = Some(STATUS_SUCCESS)

\* C3 (drain before shutdown): a poll of a worker, or of the sink, that
\* reported both the data socket and the command socket ready has had its
\* data message handled (the envelope pushed by the worker, the envelope
\* yielded by the sink) by the time the command is looked at, whatever the
\* command is; a kill that came with a data message does not drop it.
C3_DrainBeforeShutdown ==
  /\ \A w \in Workers :
       ({"data", "command"} \subseteq wsocks[w] /\ wpc[w] # "raised")
         => whandled[w]
  /\ {"data", "command"} \subseteq ssocks => shandled

\* A worker left Run on a kill that was ready in the same poll as a request,
\* and the request was answered.
C3_Witness ==
  \E w \in Workers :
    /\ wpc[w] = "exited"
    /\ wsocks[w] = {"data", "command"}
    /\ whandled[w]
    /\ resultQ # <<>>

\* C4 (ventilator ready instant): Setup records the ready instant as the
\* setup time plus worker_connect_delay, and no task of a Send call is
\* pushed before that instant.
C4_NoPushBeforeReadyInstant ==
  /\ v_setup_at # None =>
       v_connect_delay = Some(ReadyInstant(The(v_setup_at)))
  /\ \A i \in DOMAIN pushes : pushes[i] >= The(v_connect_delay)

\* C5 (late-joiner safety): if every worker connects within
\* worker_connect_delay of the ventilator's Setup and Send is called right
\* after Setup, then once Send has returned no task was pushed while no
\* worker was connected.
C5_LateJoinerSafety ==
  ( /\ vpc = "returned"
    /\ v_send_at = v_setup_at
    /\ \A w \in Workers :
         /\ wconn_at[w] # None
         /\ The(wconn_at[w]) >= The(v_setup_at)
         /\ The(wconn_at[w]) <= The(v_setup_at) + ConnectDelay )
  => dropped = 0

\* The union of the descriptor's options and the per-call overrides in which
\* the override wins on a key present in both.
OverridesWin(selfOptions, options) ==
  LET d == IF selfOptions = None THEN <<>> ELSE The(selfOptions)
      o == IF options = None THEN <<>> ELSE The(options)
  IN  [k \in DOMAIN d \cup DOMAIN o |-> IF k \in DOMAIN o THEN o[k] ELSE d[k]]

\* C6 (option merge): the options applied to the socket MakeSocket returns
\* are the union of the descriptor's options and the per-call overrides,
\* the override winning on a key present in both.
C6_OverridesWin ==
  mpc = "returned" => msock.opts = OverridesWin(desc.options, margs.options)

\* C7 (bounded receive): a Receive call given N never takes more than N
\* envelopes; once N were yielded it polls no more; it ends having yielded
\* N, or fewer exactly when it read CMD_KILL.
C7_BoundedReceive ==
  num_results # None =>
    LET N == The(num_results)
    IN  /\ Len(taken) <= N
        /\ idx <= N
        /\ idx >= N => rpc \in {"command", "stopped"}
        /\ rpc = "stopped" => (idx = N \/ killed)
        /\ killed => rpc = "stopped"

\* Receive(1) ended after one envelope without a kill, leaving a further
\* envelope unread on the receiver.
C7_Witness ==
  /\ num_results = Some(1)
  /\ rpc = "stopped"
  /\ ~killed
  /\ Len(taken) = 1
  /\ resultQ # <<>>

\* C8 (per-envelope timeout): a Receive call with a timeout is never still
\* waiting when more than the timeout has gone by since the last envelope it
\* yielded (or since the wait began), whatever arrived on the command
\* socket meanwhile.
C8_PerEnvelopeTimeout ==
  (rpc \in {"poll", "command"} /\ timeout # None)
    => since_env <= The(timeout)

\* C9 (timeout is recoverable): a ReceiverTimeoutException leaves the sink
\* set up; later Receive calls use the sockets of the one Setup, and no
\* envelope pushed to the sink is lost: each is either still queued on the
\* receiver or was taken by a Receive call.
C9_TimeoutRecoverable ==
  n_timeouts > 0 =>
    /\ s_ready
    /\ s_setups = 1
    /\ n_sent = n_taken + Len(resultQ)

\* A Receive call timed out, and a second call yielded an envelope that
\* arrived after the timeout.
C9_Witness ==
  /\ n_timeouts = 1
  /\ calls = 2
  /\ rpc # "timeout"
  /\ Len(out) >= 1
  /\ n_taken = Len(taken)

\* C10 (strict sink): what Sink.Receive yields is, in order, the payload of
\* each envelope taken, each of status OK; it has failed exactly when the
\* last envelope taken has another status, with a WorkerException carrying
\* that envelope's exception, that envelope being neither yielded nor
\* followed by another.
C10_StrictSink ==
  strict =>
    /\ Len(out) <= Len(taken)
    /\ \A i \in DOMAIN out :
         /\ taken[i].status = Some(STATUS_SUCCESS)
         /\ out[i] = taken[i].payload
    /\ rpc = "failed" =>
         /\ Len(taken) = Len(out) + 1
         /\ Last(taken).status # Some(STATUS_SUCCESS)
         /\ error # None
         /\ The(error).type = "WorkerException"
         /\ The(error).msg[2] = Str(Last(taken).exception)
    /\ rpc # "failed" => Len(taken) = Len(out)

\* The strict sink yielded one payload, then raised on a FAIL envelope.
C10_Witness ==
  /\ strict
  /\ rpc = "failed"
  /\ The(error).msg[2] = "bad"
  /\ Len(out) = 1
  /\ Len(taken) = 2

\* The events of a MakeSocket call that returns, in the order of the code:
\* create the socket, apply each option, sleep the pre-delay if there is one,
\* bind or connect, sleep the post-delay if there is one.
StepOrder ==
  <<"socket">>
  \o [i \in 1..Len(Items(EffectiveOptions(desc.options, margs.options)))
        |-> "setsockopt"]
  \o (IF desc.pre_delay # None THEN <<"sleep_pre">> ELSE <<>>)
  \o <<IF msock.bound THEN "bind" ELSE "connect">>
  \o (IF desc.post_delay # None THEN <<"sleep_post">> ELSE <<>>)

\* C17 as the specification words it: with a pre-delay configured, the sleep
\* is the first event of the materialization, before the socket is created
\* and before any option is applied.
C17_PreDelayFirst ==
  (desc.pre_delay # None /\ mevents # <<>>) => mevents[1] = "sleep_pre"

\* C17 (materialization step order), amended: the events of a
\* materialization are, in order, create socket, set each option,
\* sleep(pre-delay) if configured, bind or connect, sleep(post-delay) if
\* configured, return; the pre-delay sleep comes after the socket is created
\* and its options are applied, right before bind or connect.
C17_StepOrder ==
  /\ mpc \in {"setopt", "post"} =>
       /\ Len(mevents) <= Len(StepOrder)
       /\ mevents = SubSeq(StepOrder, 1, Len(mevents))
  /\ mpc = "returned" => mevents = StepOrder

\* A descriptor with both delays and two options was materialized and bound.
C17_Witness ==
  /\ mpc = "returned"
  /\ desc.pre_delay # None
  /\ desc.post_delay # None
  /\ Cardinality(DOMAIN msock.opts) = 2
  /\ msock.state = "bound"
  /\ mevents[4] = "sleep_pre"

\* C18 (release on failed materialization): when a step after the socket's
\* creation has raised, the socket was closed before MakeSocket exited.
C18_ReleasedOnFailure ==
  mpc = "raised" => msock.state = "closed"

\* C20 (forwarder topology): each socket LaunchForwarderDevice makes is
\* bound to its URL when MakeSocket returns it, whatever bind setting its
\* descriptor stores, and the SUB frontend has a match-all subscription.
C20_ForwarderBindsBoth ==
  mpc = "returned" =>
    /\ msock.state = "bound"
    /\ margs.bind = Some(FALSE) =>
         /\ "SUBSCRIBE" \in DOMAIN msock.opts
         /\ msock.opts["SUBSCRIBE"] = ""

\* C12 (command vocabulary): a worker leaves Run on a command only when the
\* command is the literal CLUSTER_WORKER_KILL, and a Receive sequence ends
\* on a command only when it is the literal CLUSTER_SINK_KILL; any other
\* command is taken off the socket and dropped: no error, the loop goes on,
\* and nothing is added to or removed from what was delivered.
C12_CommandVocabulary ==
  [][/\ \A w \in Workers :
          (wcmdq[w] # <<>> /\ wcmdq'[w] = Tail(wcmdq[w])) =>
            IF Head(wcmdq[w]) = "CLUSTER_WORKER_KILL"
              THEN wpc'[w] = "exited"
              ELSE /\ wpc'[w] = "poll"
                   /\ "data" \notin wsocks'[w] => resultQ' = resultQ
     /\ \A w \in Workers :
          (wpc[w] = "poll" /\ wpc'[w] = "exited") =>
            /\ wcmdq[w] # <<>>
            /\ Head(wcmdq[w]) = "CLUSTER_WORKER_KILL"
     /\ (scmdq # <<>> /\ scmdq' = Tail(scmdq)) =>
          IF Head(scmdq) = "CLUSTER_SINK_KILL"
            THEN rpc' = "stopped" /\ killed'
            ELSE /\ rpc' = LoopHead(idx, num_results)
                 /\ ~killed'
                 /\ UNCHANGED <<error, out, taken, resultQ, idx>>
     /\ (~killed /\ killed') =>
          /\ scmdq # <<>>
          /\ Head(scmdq) = "CLUSTER_SINK_KILL"]_vars

\* A worker read the sink's kill literal off the shared command channel and
\* is polling again, its earlier answer still delivered.
C12_Witness ==
  \E w \in Workers :
    /\ wpc[w] = "poll"
    /\ wsocks[w] = {"command"}
    /\ wcmdq[w] = <<>>
    /\ published = 1
    /\ resultQ # <<>>

\* The envelope a worker pushes for a request, as the claim describes it.
WellFormed(e, request) ==
  /\ e.status \in {Some(STATUS_SUCCESS), Some(STATUS_FAIL)}
  /\ e.status = Some(STATUS_SUCCESS) =>
       /\ ~Callback(request).raises
       /\ e.payload = Callback(request).value
       /\ e.payload # None
       /\ e.exception = None
  /\ e.status = Some(STATUS_FAIL) =>
       /\ Callback(request).raises
       /\ e.exception = Callback(request).exc
       /\ e.exception # None
       /\ e.payload = None

\* C16 (envelope discipline): the envelope a worker pushes for a request has
\* status SUCCESS or FAIL; with SUCCESS the payload is the callback's return
\* value and the error field is absent; with FAIL the error field is the
\* exception caught and the payload is absent; and every envelope on its way
\* to, or taken by, the sink has exactly one of the two fields populated,
\* the one its status names.
C16_EnvelopeDiscipline ==
  /\ [][\A w \in Workers :
          (inbox[w] # <<>> /\ inbox'[w] = Tail(inbox[w])
             /\ Len(resultQ') = Len(resultQ) + 1)
            => WellFormed(Last(resultQ'), Head(inbox[w]))]_vars
  /\ [](\A i \in DOMAIN resultQ :
          /\ resultQ[i].status \in {Some(STATUS_SUCCESS), Some(STATUS_FAIL)}
          /\ (resultQ[i].status = Some(STATUS_SUCCESS))
               <=> (resultQ[i].payload # None)
          /\ (resultQ[i].status = Some(STATUS_FAIL))
               <=> (resultQ[i].exception # None))

\* Both workers pushed an envelope: one of a callback that returned, one of
\* a callback that raised.
C16_Witness ==
  /\ "workers" \in launched
  /\ \A w \in Workers : whandled[w]
  /\ \E i \in DOMAIN resultQ : resultQ[i].status = Some(STATUS_SUCCESS)
  /\ \E i \in DOMAIN resultQ : resultQ[i].status = Some(STATUS_FAIL)

\* C11 (kill idempotence): in SinkSpec every KILL-SINK is published while
\* the first Receive call (no count, no timeout) has not been followed by
\* another, so a second call exists only after a kill ended the first.  When
\* one KILL-SINK was published the second call is never ended by a command
\* and yields every envelope it takes; publishing KILL-SINK twice has the
\* same effect, i.e. the second call is not ended by a kill either.
C11_KillIdempotence ==
  calls = 2 => (~killed /\ rpc # "stopped")

\* The case with one KILL-SINK published: the second call goes on.
C11_OneKill ==
  (calls = 2 /\ published = 1) => (~killed /\ rpc # "stopped")

\* C13 (kill during idle): with a command descriptor that carries no options
\* and no task sent, the Receive call without count and timeout eventually
\* ends on the KILL-SINK published after the sink was set up, with nothing
\* yielded and no error.
C13_KillDuringIdle ==
  <>(\/ s_cmd_opts # None
     \/ n_sent > 0
     \/ (rpc = "stopped" /\ killed /\ out = <<>> /\ error = None))

\* C14 (termination is idempotent): no Shutdown call of a ventilator or of a
\* sink raises, in whatever phase the object is, a second call included.
C14_ShutdownNeverRaises ==
  /\ v_shut_error = None
  /\ s_shut_error = None

\* C15 as the specification words it: the ready phase is entered by the
\* first Send or Receive call only, and once Shutdown has returned no later
\* call makes the object ready again, makes a socket, pushes a task or
\* yields an envelope.
C15_TerminatedIsFinal ==
  [][/\ v_shutdowns > 0 =>
          /\ ~v_ready'
          /\ ~v_sender'
          /\ pushes' = pushes
     /\ s_shutdowns > 0 =>
          /\ s_setups' = s_setups
          /\ ~s_poller'
          /\ n_taken' = n_taken
          /\ out' \in {out, <<>>}]_vars

\* C15 (terminated is final), amended: a ventilator or sink becomes ready in
\* a Send or Receive call that finds it not ready (the sink only once).
\* After Shutdown the sink is not reusable: its ready flag stays set, no
\* Receive call runs Setup again, and none takes or yields an envelope.  The
\* ventilator's Shutdown clears the ready flag, and a ventilator is made
\* not ready by Shutdown only; a later Send then runs Setup again, with a
\* new socket, and pushes its tasks.
C15_Lifecycle ==
  [][/\ (~v_ready /\ v_ready') =>
          /\ vpc = "idle"
          /\ v_send_at' # None
          /\ v_sender'
     /\ (v_ready /\ ~v_ready') =>
          /\ v_shutdowns' = v_shutdowns + 1
          /\ ~v_sender'
     /\ (v_shutdowns > 0 /\ vpc = "idle" /\ vpc' # "idle") =>
          /\ v_ready'
          /\ v_sender'
     /\ (~s_ready /\ s_ready') =>
          /\ calls' = calls + 1
          /\ s_setups = 0
          /\ s_shutdowns = 0
     /\ s_ready => s_ready'
     /\ s_shutdowns > 0 =>
          /\ s_setups' = s_setups
          /\ ~s_poller'
          /\ n_taken' = n_taken
          /\ out' \in {out, <<>>}]_vars

\* A ventilator that was shut down after one Send is ready again and has
\* pushed the tasks of a second Send.
C15_Witness ==
  /\ v_shutdowns = 1
  /\ v_ready
  /\ vpc = "returned"
  /\ Len(sent) > MaxTasks

\* C19 (worker timeout semantics): with a receiver timeout that is absent or
\* zero Run never raises ReceiverTimeoutException; with a non-zero timeout
\* it raises only after a poll window of that length went by with neither
\* socket ready; a timeout is not a kill: the worker has not exited and a
\* later Run polls the sockets of the one Setup.
C19_WorkerTimeout ==
  \A w \in Workers :
    /\ (receiver_timeout = None \/ receiver_timeout = Some(0)) =>
         (wpc[w] # "timeout" /\ w_error[w] = None)
    /\ wpc[w] = "timeout" =>
         /\ welapsed[w] >= The(receiver_timeout)
         /\ wsocks[w] = {}
    /\ w_setups[w] <= 1

\* The next message a recv_pyobj on the worker's command socket returns is
\* the worker's kill.
WorkerKillReady(w) == wcmdq[w] # <<>> /\ Head(wcmdq[w]) = WORKER_CMD_KILL

\* The next message a recv_pyobj on the sink's command socket returns is
\* the sink's kill.
SinkKillReady == scmdq # <<>> /\ Head(scmdq) = SINK_CMD_KILL

C21_SinkLeftQueued ==
  /\ killed
  /\ rpc = "stopped"
  /\ ssocks = {"data", "command"}
  /\ out # <<>>
  /\ resultQ # <<>>

====
